---- MODULE Spec2Model ----
(***************************************************************************)
(* Receipt allocation manager: the PCN874 parser, editor and search.       *)
(*                                                                         *)
(* Variant A is the strict 60-character T-row layout of                    *)
(* src/lib/validators/schemas.ts; Variant B is the delimiter-relative      *)
(* layout of src/lib/parser/pcn874.ts.  A text is a sequence of            *)
(* characters; a character is a one-element string, with the named         *)
(* characters LF, CR, BOM and SP standing for U+000A, U+000D, U+FEFF and   *)
(* U+0020.                                                                 *)
(***************************************************************************)
EXTENDS Integers, Sequences, FiniteSets, TLC

\* ------------------------------------------------------------------------
\* Characters
\* ------------------------------------------------------------------------
LF == "LF"
CR == "CR"
BOM == "BOM"
SP == "SP"

DigitChars == <<"0", "1", "2", "3", "4", "5", "6", "7", "8", "9">>

\* \d of the regular expressions: ASCII decimal digits only.
IsDigit(c) == \E i \in 1..10 : DigitChars[i] = c

DigitVal(c) == (CHOOSE i \in 1..10 : DigitChars[i] = c) - 1

\* ^\d{n}$
AllDigits(s) == \A i \in 1..Len(s) : IsDigit(s[i])

\* /^T/i
IsMarkerT(c) == c \in {"T", "t"}

\* /^[A-Z]/i
IsLetter(c) ==
  c \in {"A", "B", "C", "D", "E", "F", "G", "H", "I", "J", "K", "L", "M",
         "N", "O", "P", "Q", "R", "S", "T", "U", "V", "W", "X", "Y", "Z",
         "a", "b", "c", "d", "e", "f", "g", "h", "i", "j", "k", "l", "m",
         "n", "o", "p", "q", "r", "s", "t", "u", "v", "w", "x", "y", "z"}

\* The characters of the model that String.prototype.trim removes
\* (WhiteSpace and LineTerminator of ECMAScript; U+FEFF is WhiteSpace).
IsTrimmed(c) == c \in {SP, BOM, LF, CR}

\* ------------------------------------------------------------------------
\* String primitives of the host language, on sequences of characters
\* ------------------------------------------------------------------------
Min(a, b) == IF a < b THEN a ELSE b
Max(a, b) == IF a > b THEN a ELSE b
Clamp(n, len) == Max(0, Min(n, len))

\* String.prototype.substring(start, end) with 0-based offsets: both
\* arguments are clamped to [0, length] and swapped when start > end.
Substring(s, start, end) ==
  LET a == Clamp(start, Len(s))
      b == Clamp(end, Len(s))
      lo == Min(a, b)
      hi == Max(a, b)
  IN  SubSeq(s, lo + 1, hi)

\* String.prototype.substring(start)
SubstringFrom(s, start) == Substring(s, start, Len(s))

\* s[i] with a 0-based offset; "undefined" past the end.
CharAt(s, i) == IF i >= 0 /\ i < Len(s) THEN s[i + 1] ELSE "undefined"

\* The offset of the last c instead of the first.
IndexOf_Last(s, c) ==
  LET hits == {i \in 1..Len(s) : s[i] = c}
  IN  IF hits = {} THEN -1
      ELSE (CHOOSE i \in hits : \A j \in hits : i >= j) - 1

\* String.prototype.indexOf(c): 0-based offset of the first c, or -1.
IndexOf(s, c) ==
  LET hits == {i \in 1..Len(s) : s[i] = c}
  IN  IF hits = {} THEN -1
      ELSE (CHOOSE i \in hits : \A j \in hits : i <= j) - 1

\* String.prototype.includes(c)
Includes(s, c) == \E i \in 1..Len(s) : s[i] = c

\* String.prototype.trim()
RECURSIVE TrimStart(_)
TrimStart(s) ==
  IF Len(s) > 0 /\ IsTrimmed(s[1]) THEN TrimStart(Tail(s)) ELSE s

RECURSIVE TrimEnd(_)
TrimEnd(s) ==
  IF Len(s) > 0 /\ IsTrimmed(s[Len(s)])
  THEN TrimEnd(SubSeq(s, 1, Len(s) - 1))
  ELSE s

Trim(s) == TrimEnd(TrimStart(s))

\* parseInt(s, 10) of a string of decimal digits.
RECURSIVE ParseInt(_)
ParseInt(s) ==
  IF Len(s) = 0 THEN 0
  ELSE 10 * ParseInt(SubSeq(s, 1, Len(s) - 1)) + DigitVal(s[Len(s)])

\* s.replace(/^0+/, '') || '0'
RECURSIVE StripLeadingZeros(_)
StripLeadingZeros(s) ==
  IF Len(s) > 0 /\ s[1] = "0" THEN StripLeadingZeros(Tail(s)) ELSE s

\* Leading zeros stripped, without the default for an empty result.
NormalizeNumber_NoDefault(s) == StripLeadingZeros(s)

\* A number kept as written, leading zeros included.
NormalizeNumber_Keep(s) == s

NormalizeNumber(s) ==
  LET t == StripLeadingZeros(s) IN IF t = <<>> THEN <<"0">> ELSE t

\* content.replace(/^\uFEFF/, ''): at most one leading byte-order mark.
StripBOM(s) == IF Len(s) > 0 /\ s[1] = BOM THEN Tail(s) ELSE s

\* .replace(/\r\n/g, '\n').replace(/\r/g, '\n'): an LF that follows a CR
\* goes with it, and every CR becomes an LF.
NormalizeEndings(s) ==
  LET marked == [i \in 1..Len(s) |->
                   IF s[i] = LF /\ i > 1 /\ s[i - 1] = CR THEN "dropped"
                   ELSE IF s[i] = CR THEN LF
                   ELSE s[i]]
  IN  SelectSeq(marked, LAMBDA c : c # "dropped")

\* content.includes('\r\n')
HasCRLF(s) == \E i \in 1..(Len(s) - 1) : s[i] = CR /\ s[i + 1] = LF

\* String.prototype.split(sep) for a one-character separator: always at
\* least one piece, the empty text gives one empty piece.
RECURSIVE SplitOn(_, _)
SplitOn(s, sep) ==
  LET p == IndexOf(s, sep)
  IN  IF p = -1 THEN <<s>>
      ELSE <<SubSeq(s, 1, p)>> \o SplitOn(SubSeq(s, p + 2, Len(s)), sep)

\* Array.prototype.join(sep)
RECURSIVE Join(_, _)
Join(ls, sep) ==
  IF Len(ls) = 0 THEN <<>>
  ELSE IF Len(ls) = 1 THEN ls[1]
       ELSE ls[1] \o sep \o Join(Tail(ls), sep)

\* The lines array both parseFile and updateAllocation work on.
SplitLines(content) == SplitOn(NormalizeEndings(StripBOM(content)), LF)

\* ------------------------------------------------------------------------
\* Variant A: strict fixed-width T rows (src/lib/validators/schemas.ts)
\* ------------------------------------------------------------------------
RowLengthA == 60
PlusOffsetA == 40
AllocOffsetA == 51

\* A classifier that asks for the marker and a '+' anywhere.
isReceiptRowA_AnyPlus(line) ==
  /\ Len(line) > 0
  /\ IsMarkerT(line[1])
  /\ Includes(line, "+")

isReceiptRowA(line) ==
  /\ Len(line) > 0
  /\ IsMarkerT(line[1])
  /\ Len(line) = RowLengthA
  /\ CharAt(line, PlusOffsetA) = "+"

\* The result is <<>> for null and <<receipt>> for a receipt.
parseReceiptRowA(row, rowIndex, lineNumber) ==
  LET businessNumber == Substring(row, 1, 10)
      yearStr == Substring(row, 10, 14)
      monthStr == Substring(row, 14, 16)
      dayStr == Substring(row, 16, 18)
      receiptSection == Substring(row, 22, 31)
      vatString == Substring(row, 31, 40)
      sumString == Substring(row, 41, 51)
      allocationNumber == Substring(row, AllocOffsetA, 60)
  IN  IF ~(Len(row) > 0 /\ IsMarkerT(row[1])) THEN <<>>
      ELSE IF Len(row) # RowLengthA THEN <<>>
      ELSE IF CharAt(row, PlusOffsetA) # "+" THEN <<>>
      ELSE IF ~(Len(businessNumber) = 9 /\ AllDigits(businessNumber)) THEN <<>>
      ELSE IF ~(Len(yearStr) = 4 /\ AllDigits(yearStr)) THEN <<>>
      ELSE IF ParseInt(yearStr) < 1900 \/ ParseInt(yearStr) > 2100 THEN <<>>
      ELSE IF ~(Len(monthStr) = 2 /\ AllDigits(monthStr)) THEN <<>>
      ELSE IF ParseInt(monthStr) < 1 \/ ParseInt(monthStr) > 12 THEN <<>>
      ELSE IF ~(Len(dayStr) = 2 /\ AllDigits(dayStr)) THEN <<>>
      ELSE IF ParseInt(dayStr) < 1 \/ ParseInt(dayStr) > 31 THEN <<>>
      ELSE IF ~(Len(receiptSection) = 9 /\ AllDigits(receiptSection)) THEN <<>>
      ELSE IF ~(Len(vatString) = 9 /\ AllDigits(vatString)) THEN <<>>
      ELSE IF ~(Len(sumString) = 10 /\ AllDigits(sumString)) THEN <<>>
      ELSE IF ~(Len(allocationNumber) = 9 /\ AllDigits(allocationNumber)) THEN <<>>
      ELSE << [rowIndex |-> rowIndex,
               lineNumber |-> lineNumber,
               rawRow |-> row,
               rowType |-> row[1],
               businessNumber |-> businessNumber,
               year |-> ParseInt(yearStr),
               month |-> ParseInt(monthStr),
               day |-> ParseInt(dayStr),
               receiptNumber |-> NormalizeNumber(receiptSection),
               vatAmount |-> ParseInt(vatString),
               sumWithoutVat |-> ParseInt(sumString),
               allocationNumber |-> allocationNumber] >>

\* A rewrite that starts one character early.
modifiedLineA_OneEarly(originalLine, allocationNumber) ==
  Substring(originalLine, 0, AllocOffsetA - 1) \o allocationNumber

\* originalLine.substring(0, 51) + allocationNumber
modifiedLineA(originalLine, allocationNumber) ==
  Substring(originalLine, 0, AllocOffsetA) \o allocationNumber

\* ------------------------------------------------------------------------
\* Variant B: delimiter-relative rows (src/lib/parser/pcn874.ts)
\* ------------------------------------------------------------------------
MinRowLengthB == 47
FixedPrefixB == 18

\* A classifier that asks for the leading letter only.
isReceiptRowB_LetterOnly(line) ==
  /\ Len(line) > 0
  /\ IsLetter(line[1])

isReceiptRowB(line) ==
  /\ Len(line) > 0
  /\ IsLetter(line[1])
  /\ Includes(line, "+")

parseReceiptRowB(row, rowIndex, lineNumber) ==
  LET plusIndex == IndexOf(row, "+")
      businessNumber == Substring(row, 1, 10)
      yearStr == Substring(row, 10, 14)
      monthStr == Substring(row, 14, 16)
      dayStr == Substring(row, 16, 18)
      vatStartIndex == plusIndex - 9
      vatString == Substring(row, vatStartIndex, plusIndex)
      receiptSection == Substring(row, FixedPrefixB, vatStartIndex)
      sumString == Substring(row, plusIndex + 1, plusIndex + 11)
      allocationNumber == SubstringFrom(row, Len(row) - 9)
  IN  IF ~(Len(row) > 0 /\ IsLetter(row[1])) THEN <<>>
      ELSE IF plusIndex = -1 THEN <<>>
      ELSE IF Len(row) < MinRowLengthB THEN <<>>
      ELSE IF ~(Len(businessNumber) = 9 /\ AllDigits(businessNumber)) THEN <<>>
      ELSE IF ~(Len(yearStr) = 4 /\ AllDigits(yearStr)) THEN <<>>
      ELSE IF ParseInt(yearStr) < 1900 \/ ParseInt(yearStr) > 2100 THEN <<>>
      ELSE IF ~(Len(monthStr) = 2 /\ AllDigits(monthStr)) THEN <<>>
      ELSE IF ParseInt(monthStr) < 1 \/ ParseInt(monthStr) > 12 THEN <<>>
      ELSE IF ~(Len(dayStr) = 2 /\ AllDigits(dayStr)) THEN <<>>
      ELSE IF ParseInt(dayStr) < 1 \/ ParseInt(dayStr) > 31 THEN <<>>
      ELSE IF vatStartIndex < FixedPrefixB THEN <<>>
      ELSE IF ~(Len(vatString) = 9 /\ AllDigits(vatString)) THEN <<>>
      ELSE IF Len(receiptSection) > 0 /\ ~AllDigits(receiptSection) THEN <<>>
      ELSE IF ~(Len(sumString) = 10 /\ AllDigits(sumString)) THEN <<>>
      ELSE IF ~(Len(allocationNumber) = 9 /\ AllDigits(allocationNumber)) THEN <<>>
      ELSE << [rowIndex |-> rowIndex,
               lineNumber |-> lineNumber,
               rawRow |-> row,
               rowType |-> row[1],
               businessNumber |-> businessNumber,
               year |-> ParseInt(yearStr),
               month |-> ParseInt(monthStr),
               day |-> ParseInt(dayStr),
               receiptNumber |-> NormalizeNumber(receiptSection),
               vatAmount |-> ParseInt(vatString),
               sumWithoutVat |-> ParseInt(sumString),
               allocationNumber |-> allocationNumber] >>

\* originalLine.substring(0, originalLine.length - 9) + allocationNumber
modifiedLineB(originalLine, allocationNumber) ==
  Substring(originalLine, 0, Len(originalLine) - 9) \o allocationNumber

\* ------------------------------------------------------------------------
\* The variant is chosen once per file by the caller.
\* ------------------------------------------------------------------------
isReceiptRow(v, line) ==
  IF v = "A" THEN isReceiptRowA(line) ELSE isReceiptRowB(line)

parseReceiptRow(v, row, rowIndex, lineNumber) ==
  IF v = "A" THEN parseReceiptRowA(row, rowIndex, lineNumber)
  ELSE parseReceiptRowB(row, rowIndex, lineNumber)

modifiedLine(v, originalLine, allocationNumber) ==
  IF v = "A" THEN modifiedLineA(originalLine, allocationNumber)
  ELSE modifiedLineB(originalLine, allocationNumber)

\* ------------------------------------------------------------------------
\* parseFile: the same loop in both files
\* ------------------------------------------------------------------------
LineError(lineNumber) == [type |-> "InvalidRow", line |-> lineNumber]
NoRowsError == [type |-> "NoValidRows", line |-> 0]

EmptyParse == [receipts |-> <<>>, errors |-> <<>>, lineMap |-> <<>>]

\* An iteration whose index counts the failing candidate lines too.
parseStep_ErrorsCounted(v, lines, i, acc) ==
  LET line == Trim(lines[i + 1])
      lineNumber == i + 1
      receiptIndex == Len(acc.receipts) + Len(acc.errors)
      receipt == parseReceiptRow(v, line, receiptIndex, lineNumber)
  IN  IF line = <<>> THEN acc
      ELSE IF ~isReceiptRow(v, line) THEN acc
      ELSE IF receipt # <<>>
           THEN [receipts |-> Append(acc.receipts, receipt[1]),
                 errors |-> acc.errors,
                 lineMap |-> (receiptIndex :> lineNumber) @@ acc.lineMap]
           ELSE [receipts |-> acc.receipts,
                 errors |-> Append(acc.errors, LineError(lineNumber)),
                 lineMap |-> acc.lineMap]

\* An iteration that reports the 0-based index as the line number.
parseStep_ZeroBased(v, lines, i, acc) ==
  LET line == Trim(lines[i + 1])
      lineNumber == i
      receiptIndex == Len(acc.receipts)
      receipt == parseReceiptRow(v, line, receiptIndex, lineNumber)
  IN  IF line = <<>> THEN acc
      ELSE IF ~isReceiptRow(v, line) THEN acc
      ELSE IF receipt # <<>>
           THEN [receipts |-> Append(acc.receipts, receipt[1]),
                 errors |-> acc.errors,
                 lineMap |-> (receiptIndex :> lineNumber) @@ acc.lineMap]
           ELSE [receipts |-> acc.receipts,
                 errors |-> Append(acc.errors, LineError(lineNumber)),
                 lineMap |-> acc.lineMap]

\* One iteration of the for loop, for the 0-based index i.
parseStep(v, lines, i, acc) ==
  LET line == Trim(lines[i + 1])
      lineNumber == i + 1
      receiptIndex == Len(acc.receipts)
      receipt == parseReceiptRow(v, line, receiptIndex, lineNumber)
  IN  IF line = <<>> THEN acc
      ELSE IF ~isReceiptRow(v, line) THEN acc
      ELSE IF receipt # <<>>
           THEN [receipts |-> Append(acc.receipts, receipt[1]),
                 errors |-> acc.errors,
                 lineMap |-> (receiptIndex :> lineNumber) @@ acc.lineMap]
           ELSE [receipts |-> acc.receipts,
                 errors |-> Append(acc.errors, LineError(lineNumber)),
                 lineMap |-> acc.lineMap]

RECURSIVE parseLoop(_, _, _, _)
parseLoop(v, lines, i, acc) ==
  IF i >= Len(lines) THEN acc
  ELSE parseLoop(v, lines, i + 1, parseStep(v, lines, i, acc))

\* A parse that adds the synthetic error whenever there are no receipts.
parseFile_NoReceiptsOnly(v, content) ==
  LET acc == parseLoop(v, SplitLines(content), 0, EmptyParse)
  IN  IF Len(acc.receipts) = 0
      THEN [acc EXCEPT !.errors = Append(acc.errors, NoRowsError)]
      ELSE acc

parseFile(v, content) ==
  LET acc == parseLoop(v, SplitLines(content), 0, EmptyParse)
  IN  IF Len(acc.receipts) = 0 /\ Len(acc.errors) = 0
      THEN [acc EXCEPT !.errors = <<NoRowsError>>]
      ELSE acc

\* ------------------------------------------------------------------------
\* updateAllocation: the same steps in both files
\* ------------------------------------------------------------------------
Failure(kind) == [status |-> kind, text |-> <<>>]
Success(text) == [status |-> "ok", text |-> text]

\* /^\d{9}$/.test(allocationNumber)
validAllocation(allocationNumber) ==
  Len(allocationNumber) = 9 /\ AllDigits(allocationNumber)

\* A choice made on the normalised text, where no '\r\n' is left.
lineEnding_AfterNormalize(content) ==
  IF HasCRLF(NormalizeEndings(content)) THEN <<CR, LF>> ELSE <<LF>>

lineEnding(content) == IF HasCRLF(content) THEN <<CR, LF>> ELSE <<LF>>

\* An assignment that takes the 1-based line number for the array index: it
\* overwrites the next line, or grows the array by one.
writeLine_OneBased(lines, lineIndex, newLine) ==
  IF lineIndex + 2 <= Len(lines)
  THEN [lines EXCEPT ![lineIndex + 2] = newLine]
  ELSE Append(lines, newLine)

\* lines[lineIndex] = modifiedLine, for the 0-based index lineIndex
writeLine(lines, lineIndex, newLine) ==
  [lines EXCEPT ![lineIndex + 1] = newLine]

\* An update that looks for the line before it validates the allocation.
updateAllocation_LineFirst(v, content, lineNumber, allocationNumber) ==
  LET lines == SplitLines(content)
      lineIndex == lineNumber - 1
      originalLine == lines[lineIndex + 1]
  IN  IF lineIndex < 0 \/ lineIndex >= Len(lines) THEN Failure("LineNotFound")
      ELSE IF ~validAllocation(allocationNumber) THEN Failure("InvalidAllocation")
      ELSE IF ~isReceiptRow(v, originalLine) THEN Failure("NotARecordLine")
      ELSE Success(Join(writeLine(lines, lineIndex,
                                  modifiedLine(v, originalLine, allocationNumber)),
                        lineEnding(content)))

updateAllocation(v, content, lineNumber, allocationNumber) ==
  LET lines == SplitLines(content)
      lineIndex == lineNumber - 1
      originalLine == lines[lineIndex + 1]
  IN  IF ~validAllocation(allocationNumber) THEN Failure("InvalidAllocation")
      ELSE IF lineIndex < 0 \/ lineIndex >= Len(lines) THEN Failure("LineNotFound")
      ELSE IF ~isReceiptRow(v, originalLine) THEN Failure("NotARecordLine")
      ELSE Success(Join(writeLine(lines, lineIndex,
                                  modifiedLine(v, originalLine, allocationNumber)),
                        lineEnding(content)))

\* ------------------------------------------------------------------------
\* Inputs: file contents built from a catalogue of lines
\* ------------------------------------------------------------------------
MaxLines == 2
MaxBOM == 2

Rep(c, n) == [i \in 1..n |-> c]

RECURSIVE Pow10(_)
Pow10(k) == IF k = 0 THEN 1 ELSE 10 * Pow10(k - 1)

\* The decimal digits of n, zero-padded on the left to width w (w <= 10).
Pad(n, w) == [i \in 1..w |-> DigitChars[((n \div Pow10(w - i)) % 10) + 1]]

\* T000719567202511160006000006394000004576+0000025424000006394
ExampleRowA ==
  <<"T">> \o Pad(719567, 9) \o Pad(2025, 4) \o Pad(11, 2) \o Pad(16, 2)
    \o Pad(6, 4) \o Pad(6394, 9) \o Pad(4576, 9) \o <<"+">>
    \o Pad(25424, 10) \o Pad(6394, 9)

\* A lower-case marker and an all-zero receipt number.
LowerRowA ==
  <<"t">> \o Pad(123456789, 9) \o Pad(1999, 4) \o Pad(1, 2) \o Pad(31, 2)
    \o Pad(0, 4) \o Pad(0, 9) \o Pad(17, 9) \o <<"+">>
    \o Pad(100, 10) \o Pad(0, 9)

\* Classifies as a T row, but its VAT field holds a letter.
BadRowA == [ExampleRowA EXCEPT ![36] = "x"]

\* A T row followed by one space.
PaddedRowA == ExampleRowA \o <<SP>>

BlankLine == <<>>
HeaderLine == <<"O", "1">>

\* R424673351202511020014000000000000000719+0000000000000000000
ExampleRowB ==
  <<"R">> \o Pad(424673351, 9) \o Pad(2025, 4) \o Pad(11, 2) \o Pad(2, 2)
    \o Pad(14, 4) \o Pad(0, 9) \o Pad(719, 9) \o <<"+">>
    \o Pad(0, 10) \o Pad(0, 9)

\* 47 characters with an empty receipt section, followed by one space.
MinimalRowB ==
  <<"S">> \o Pad(424673351, 9) \o Pad(2024, 4) \o Pad(12, 2) \o Pad(31, 2)
    \o Pad(88, 9) \o <<"+">> \o Pad(500, 10) \o Pad(7, 9)

PaddedRowB == MinimalRowB \o <<SP>>

\* 47 characters with a 9-digit receipt section: the 10 characters after
\* '+' run to the end of the line.
DenseRowB ==
  <<"R">> \o Pad(111111111, 9) \o Pad(2025, 4) \o Pad(1, 2) \o Pad(1, 2)
    \o Pad(14, 9) \o Pad(5, 9) \o <<"+">> \o Pad(123, 10)

\* A letter and a '+', nothing else.
ShortRowB == <<"A", "+">>

Catalogue(v) ==
  IF v = "A"
  THEN {ExampleRowA, LowerRowA, BadRowA, PaddedRowA, BlankLine, HeaderLine}
  ELSE {ExampleRowB, PaddedRowB, DenseRowB, ShortRowB, BlankLine, HeaderLine}

Terminators == {<<LF>>, <<CR, LF>>, <<CR>>}

\* ls[1] ts[1] ls[2] ts[2] ... ls[n]
RECURSIVE JoinWith(_, _)
JoinWith(ls, ts) ==
  IF Len(ls) = 1 THEN ls[1]
  ELSE ls[1] \o ts[1] \o JoinWith(Tail(ls), Tail(ts))

\* b byte-order marks, then the lines ls with the terminators ts between them.
MakeContent(b, ls, ts) == Rep(BOM, b) \o JoinWith(ls, ts)

Allocations == {Pad(42, 9), <<"4", "2">>, Pad(4, 8) \o <<"x">>}
LineNumbers == 0..(MaxLines + 1)

\* ------------------------------------------------------------------------
\* State: one file, parsed, edited once, parsed again and edited again
\* ------------------------------------------------------------------------
VARIABLES variant, content, pc, parsed, lineNumber, allocationNumber,
          updated, reparsed, updatedAgain

\* One line, classified and extracted on its own.
VARIABLES row, classified, extracted

\* A search over the records of the parsed file.
VARIABLES query, entity, found, match

\* An allocation number as entered, and what allocationNumberSchema makes
\* of it.
VARIABLES rawAllocation, schemaResult

\* A request to an API route, what supabase.auth.getUser answers for its
\* token, the result of verifyJWT and the response of the route.
VARIABLES request, getUser, auth, response

\* One call of fetchWithAuth: what its collaborators answer, and its progress.
VARIABLES fetchEnv, fetchRun

\* The dashboard page: its two pieces of state, the requests in flight, the
\* flags isLoading of the mounted AllocationForm and isUploading of the
\* FileUploader, and a record of what has been installed and applied.
VARIABLES fileData, selectedReceipt, pending, form, history

rowVars == <<row, classified, extracted>>
searchVars == <<query, entity, found, match>>
schemaVars == <<rawAllocation, schemaResult>>
routeVars == <<request, getUser, auth, response>>
fetchVars == <<fetchEnv, fetchRun>>
dashVars == <<fileData, selectedReceipt, pending, form, history>>

vars == <<variant, content, pc, parsed, lineNumber, allocationNumber,
          updated, reparsed, updatedAgain, rowVars, searchVars, schemaVars,
          routeVars, fetchVars, dashVars>>

\* Nothing classified, searched or validated yet.
RowIdle == row = <<>> /\ classified = FALSE /\ extracted = <<>>
SearchIdle == query = <<>> /\ entity = <<>> /\ found = <<>> /\ match = <<>>
SchemaIdle == rawAllocation = <<>> /\ schemaResult = <<>>
RouteIdle == request = <<>> /\ getUser = <<>> /\ auth = <<>> /\ response = <<>>
FetchIdle == fetchEnv = <<>> /\ fetchRun = <<>>
DashIdle ==
  /\ fileData = <<>>
  /\ selectedReceipt = <<>>
  /\ pending = <<>>
  /\ form = <<>>
  /\ history = <<>>

\* No file edited yet.
EditIdle ==
  /\ parsed = EmptyParse
  /\ lineNumber = 0
  /\ allocationNumber = <<>>
  /\ updated = Failure("unset")
  /\ reparsed = EmptyParse
  /\ updatedAgain = Failure("unset")

Init ==
  /\ variant \in {"A", "B"}
  /\ \E b \in 0..MaxBOM, n \in 1..MaxLines :
       \E ls \in [1..n -> Catalogue(variant)],
          ts \in [1..(n - 1) -> Terminators] :
         content = MakeContent(b, ls, ts)
  /\ pc = "input"
  /\ EditIdle
  /\ RowIdle
  /\ SearchIdle
  /\ SchemaIdle
  /\ RouteIdle
  /\ FetchIdle
  /\ DashIdle

Parse ==
  /\ pc = "input"
  /\ parsed' = parseFile(variant, content)
  /\ pc' = "parsed"
  /\ UNCHANGED <<variant, content, lineNumber, allocationNumber, updated,
                 reparsed, updatedAgain, rowVars, searchVars, schemaVars,
                 routeVars, fetchVars, dashVars>>

Update ==
  /\ pc = "parsed"
  /\ \E l \in LineNumbers, a \in Allocations :
       /\ lineNumber' = l
       /\ allocationNumber' = a
       /\ updated' = updateAllocation(variant, content, l, a)
  /\ pc' = "updated"
  /\ UNCHANGED <<variant, content, parsed, reparsed, updatedAgain,
                 rowVars, searchVars, schemaVars,
                 routeVars, fetchVars, dashVars>>

Reparse ==
  /\ pc = "updated"
  /\ updated.status = "ok"
  /\ reparsed' = parseFile(variant, updated.text)
  /\ pc' = "reparsed"
  /\ UNCHANGED <<variant, content, parsed, lineNumber, allocationNumber,
                 updated, updatedAgain, rowVars, searchVars, schemaVars,
                 routeVars, fetchVars, dashVars>>

UpdateAgain ==
  /\ pc = "reparsed"
  /\ updatedAgain' =
       updateAllocation(variant, updated.text, lineNumber, allocationNumber)
  /\ pc' = "done"
  /\ UNCHANGED <<variant, content, parsed, lineNumber, allocationNumber,
                 updated, reparsed, rowVars, searchVars, schemaVars,
                 routeVars, fetchVars, dashVars>>

Next == Parse \/ Update \/ Reparse \/ UpdateAgain

Spec == Init /\ [][Next]_vars

TypeOK ==
  /\ variant \in {"A", "B"}
  /\ pc \in {"input", "parsed", "updated", "reparsed", "done"}
  /\ Len(ExampleRowA) = 60 /\ Len(ExampleRowB) = 60
  /\ Len(MinimalRowB) = 47 /\ Len(DenseRowB) = 47

\* ------------------------------------------------------------------------
\* Notions the properties share
\* ------------------------------------------------------------------------
\* The lines of the input as the program numbers them.
InputLines == SplitLines(content)

\* The lines of a text as written: split at its terminators, nothing removed.
RawLines(text) == SplitOn(NormalizeEndings(text), LF)

\* Line n of lines is a candidate: not blank, and classifies once trimmed.
Candidate(lines, n) ==
  LET line == Trim(lines[n])
  IN  line # <<>> /\ isReceiptRow(variant, line)

Elems(seq) == {seq[i] : i \in 1..Len(seq)}

\* The fields of a record that an update must leave alone.
SameOtherFields(r, q) ==
  /\ q.rowType = r.rowType
  /\ q.businessNumber = r.businessNumber
  /\ q.year = r.year
  /\ q.month = r.month
  /\ q.day = r.day
  /\ q.receiptNumber = r.receiptNumber
  /\ q.vatAmount = r.vatAmount
  /\ q.sumWithoutVat = r.sumWithoutVat

RoundTrip(v) ==
  (variant = v /\ pc \in {"reparsed", "done"}) =>
    \A r \in Elems(parsed.receipts) :
      r.lineNumber = lineNumber =>
        \E q \in Elems(reparsed.receipts) :
          /\ q.rowIndex = r.rowIndex
          /\ q.lineNumber = r.lineNumber
          /\ q.allocationNumber = allocationNumber
          /\ SameOtherFields(r, q)

\* A record of the first parse was rewritten with a new allocation code.
RoundTripCase(v) ==
  /\ variant = v
  /\ pc = "reparsed"
  /\ \E r \in Elems(parsed.receipts) :
       r.lineNumber = lineNumber /\ r.allocationNumber # allocationNumber

\* C1: Variant A round trip.  When update succeeds on the line of a record r
\* with a 9-digit A, parsing the output yields a record with r's
\* sequence_index and source_line_number, allocation_code A and every other
\* field as in r.
C1_RoundTripA == RoundTrip("A")

C1_Witness == RoundTripCase("A")

\* C2: Variant B round trip, the same statement for delimiter-relative rows.
C2_RoundTripB == RoundTrip("B")

C4_AddressedLine ==
  (pc = "updated" /\ updated.status = "ok") =>
    LET old == InputLines[lineNumber]
        new == RawLines(updated.text)[lineNumber]
        n == Len(old)
    IN  /\ Len(new) = n
        /\ IF variant = "A"
           THEN /\ \A k \in 1..51 : new[k] = old[k]
                /\ SubSeq(new, 52, 60) = allocationNumber
           ELSE /\ \A k \in 1..(n - 9) : new[k] = old[k]
                /\ SubSeq(new, n - 8, n) = allocationNumber

\* C5: update(t, L, A) succeeds and returns t when t = update(content, L, A).
C5_Idempotent ==
  pc = "done" =>
    /\ updatedAgain.status = "ok"
    /\ updatedAgain.text = updated.text

\* C6: update fails in exactly three cases, checked in this order: A is not
\* 9 digits; else L is outside 1..#lines; else line L does not classify.  A
\* failure returns no text; every other call succeeds.
C6_FailureCases ==
  pc = "updated" =>
    LET nineDigits == /\ Len(allocationNumber) = 9
                      /\ \A k \in 1..9 : IsDigit(allocationNumber[k])
        in == InputLines
        inRange == lineNumber \in 1..Len(in)
        expected ==
          IF ~nineDigits THEN "InvalidAllocation"
          ELSE IF ~inRange THEN "LineNotFound"
          ELSE IF ~isReceiptRow(variant, in[lineNumber])
               THEN "NotARecordLine"
               ELSE "ok"
    IN  /\ updated.status = expected
        /\ updated.status # "ok" => updated.text = <<>>

\* An invalid allocation was refused although the line number is out of
\* range too.
C6_Witness ==
  /\ pc = "updated"
  /\ updated.status = "InvalidAllocation"
  /\ lineNumber \notin 1..Len(InputLines)

\* C7: every candidate line yields exactly one record or one error naming
\* its line number, every other line yields neither; a failing candidate
\* consumes no sequence_index and leaves the other lines' records alone.
C7_LineAccounting ==
  pc = "parsed" =>
    LET in == InputLines
        recsAt(n) == {i \in 1..Len(parsed.receipts) :
                        parsed.receipts[i].lineNumber = n}
        errsAt(n) == {j \in 1..Len(parsed.errors) :
                        parsed.errors[j] = LineError(n)}
        lineErrors == {j \in 1..Len(parsed.errors) :
                         parsed.errors[j].type = "InvalidRow"}
        candidates == {n \in 1..Len(in) : Candidate(in, n)}
        before(n) == {m \in candidates : m < n /\ recsAt(m) # {}}
    IN  /\ \A n \in 1..Len(in) :
             Cardinality(recsAt(n)) + Cardinality(errsAt(n))
               = IF n \in candidates THEN 1 ELSE 0
        /\ Len(parsed.receipts) + Cardinality(lineErrors)
             = Cardinality(candidates)
        /\ \A j \in lineErrors : parsed.errors[j].line \in candidates
        /\ \A r \in Elems(parsed.receipts) :
             /\ r.lineNumber \in candidates
             /\ r.rowIndex = Cardinality(before(r.lineNumber))
             /\ <<r>> = parseReceiptRow(variant, Trim(in[r.lineNumber]),
                                        r.rowIndex, r.lineNumber)

\* A failing candidate line precedes a line that became a record.
C7_Witness ==
  /\ pc = "parsed"
  /\ \E j \in 1..Len(parsed.errors), r \in Elems(parsed.receipts) :
       /\ parsed.errors[j].type = "InvalidRow"
       /\ parsed.errors[j].line < r.lineNumber

\* C8: parse never returns zero records and zero errors; the synthetic "no
\* valid rows" error is present iff the content has no candidate line, and
\* then it is the only error.
C8_NeverEmpty ==
  pc = "parsed" =>
    LET in == InputLines
        synthetic == NoRowsError \in Elems(parsed.errors)
    IN  /\ ~(Len(parsed.receipts) = 0 /\ Len(parsed.errors) = 0)
        /\ synthetic <=> ~(\E n \in 1..Len(in) : Candidate(in, n))
        /\ synthetic => parsed.errors = <<NoRowsError>>

\* A file of headers and blank lines only.
C8_Witness ==
  /\ pc = "parsed"
  /\ Len(InputLines) >= 2
  /\ parsed.errors = <<NoRowsError>>

\* C9: records[i].sequence_index = i, source_line_number strictly
\* increasing, the line map has the keys 0..N-1 with line_map[i] =
\* records[i].source_line_number, the 1-based number of the physical line
\* after BOM stripping and normalising CR LF and bare CR to LF.
C9_Numbering ==
  pc = "parsed" =>
    LET in == InputLines
        N == Len(parsed.receipts)
    IN  /\ \A i \in 1..N : parsed.receipts[i].rowIndex = i - 1
        /\ \A i \in 1..N, j \in 1..N :
             i < j => parsed.receipts[i].lineNumber < parsed.receipts[j].lineNumber
        /\ DOMAIN parsed.lineMap = 0..(N - 1)
        /\ \A i \in 0..(N - 1) :
             parsed.lineMap[i] = parsed.receipts[i + 1].lineNumber
        /\ \A i \in 1..N :
             /\ parsed.receipts[i].lineNumber \in 1..Len(in)
             /\ Candidate(in, parsed.receipts[i].lineNumber)
             /\ Trim(in[parsed.receipts[i].lineNumber])
                  = parsed.receipts[i].rawRow

\* Two records, the second one after a line that is no record, in a file
\* with a byte-order mark and a CR terminator.
C9_Witness ==
  /\ pc = "parsed"
  /\ Len(content) > 0 /\ content[1] = BOM
  /\ CR \in Elems(content)
  /\ Len(parsed.receipts) >= 1
  /\ parsed.receipts[Len(parsed.receipts)].lineNumber > Len(parsed.receipts)

\* C10: raw_text of every record is the untrimmed line at its position in
\* the normalised content.
C10_RawTextUntrimmed ==
  pc = "parsed" =>
    \A r \in Elems(parsed.receipts) : r.rawRow = InputLines[r.lineNumber]

\* ------------------------------------------------------------------------
\* One line on its own: classification, then extraction
\* ------------------------------------------------------------------------
\* row with the characters from the 0-based offset on replaced by field.
WithField(base, offset, field) ==
  [i \in 1..Len(base) |->
     IF i > offset /\ i <= offset + Len(field) THEN field[i - offset]
     ELSE base[i]]

\* A lower-case marker on a delimiter-relative row.
LowerRowB == [MinimalRowB EXCEPT ![1] = "s"]

Substitutes == {"x", "+", "0"}

\* base with one character replaced.
MutatedRows(base) ==
  {[base EXCEPT ![k] = c] : k \in 1..Len(base), c \in Substitutes}

\* base with a date field at or beyond the limits of its range.
DateRows(base) ==
  {WithField(base, 10, Pad(y, 4)) : y \in {1899, 1900, 2100, 2101}}
    \cup {WithField(base, 14, Pad(m, 2)) : m \in {0, 1, 12, 13}}
    \cup {WithField(base, 16, Pad(d, 2)) : d \in {0, 1, 31, 32}}

\* base one or two characters shorter, and one longer.
LengthRows(base) ==
  {SubSeq(base, 1, Len(base) - 1), SubSeq(base, 1, Len(base) - 2),
   base \o <<"0">>}

BaseRows(v) ==
  IF v = "A" THEN {ExampleRowA, LowerRowA}
  ELSE {ExampleRowB, MinimalRowB, DenseRowB, LowerRowB}

\* Rows whose receipt section is all zeros.
ZeroRows(v) ==
  IF v = "A" THEN {WithField(ExampleRowA, 22, Rep("0", 9))}
  ELSE {WithField(ExampleRowB, FixedPrefixB, Rep("0", 4))}

Rows(v) ==
  UNION {MutatedRows(b) \cup DateRows(b) \cup LengthRows(b) : b \in BaseRows(v)}
    \cup BaseRows(v) \cup ZeroRows(v) \cup {BlankLine, HeaderLine, ShortRowB}

RowInit ==
  /\ variant \in {"A", "B"}
  /\ row \in Rows(variant)
  /\ classified = FALSE
  /\ extracted = <<>>
  /\ pc = "row"
  /\ content = <<>>
  /\ EditIdle
  /\ SearchIdle
  /\ SchemaIdle
  /\ RouteIdle
  /\ FetchIdle
  /\ DashIdle

\* if (isReceiptRow(line))
Classify ==
  /\ pc = "row"
  /\ classified' = isReceiptRow(variant, row)
  /\ pc' = "classified"
  /\ UNCHANGED <<variant, content, parsed, lineNumber, allocationNumber,
                 updated, reparsed, updatedAgain, row, extracted,
                 searchVars, schemaVars,
                 routeVars, fetchVars, dashVars>>

\* const receipt = parseReceiptRow(line, receiptIndex, lineNumber)
Extract ==
  /\ pc = "classified"
  /\ classified
  /\ extracted' = parseReceiptRow(variant, row, 0, 1)
  /\ pc' = "extracted"
  /\ UNCHANGED <<variant, content, parsed, lineNumber, allocationNumber,
                 updated, reparsed, updatedAgain, row, classified,
                 searchVars, schemaVars,
                 routeVars, fetchVars, dashVars>>

RowNext == Classify \/ Extract

SpecRow == RowInit /\ [][RowNext]_vars

\* ------------------------------------------------------------------------
\* Properties of classification and extraction (SpecRow)
\* ------------------------------------------------------------------------
Digits == {"0", "1", "2", "3", "4", "5", "6", "7", "8", "9"}
UpperCase == {"A", "B", "C", "D", "E", "F", "G", "H", "I", "J", "K", "L", "M",
              "N", "O", "P", "Q", "R", "S", "T", "U", "V", "W", "X", "Y", "Z"}

Numeric(s) == \A i \in DOMAIN s : s[i] \in Digits

\* line[lo..hi): the characters at the 0-based offsets lo, ..., hi - 1 that
\* the line has.
Slice(line, lo, hi) ==
  [i \in 1..(Min(hi, Len(line)) - lo) |-> line[lo + i]]

\* The number a string of decimal digits denotes.
RECURSIVE WeightedSum(_, _)
WeightedSum(s, i) ==
  IF i > Len(s) THEN 0
  ELSE DigitVal(s[i]) * Pow10(Len(s) - i) + WeightedSum(s, i + 1)

DecimalValue(s) == WeightedSum(s, 1)

\* t is s without its leading zeros, and "0" when nothing is left.
IsStripped(s, t) ==
  \E k \in 0..Len(s) :
    /\ \A i \in 1..k : s[i] = "0"
    /\ k < Len(s) => s[k + 1] # "0"
    /\ t = IF k = Len(s) THEN <<"0">> ELSE SubSeq(s, k + 1, Len(s))

DateInRange(line) ==
  /\ Numeric(Slice(line, 10, 14))
  /\ DecimalValue(Slice(line, 10, 14)) \in 1900..2100
  /\ Numeric(Slice(line, 14, 16))
  /\ DecimalValue(Slice(line, 14, 16)) \in 1..12
  /\ Numeric(Slice(line, 16, 18))
  /\ DecimalValue(Slice(line, 16, 18)) \in 1..31

HasClassified == pc \in {"classified", "extracted"}

C12_ClassifyB_UpperOnly ==
  (HasClassified /\ variant = "B") =>
    (classified <=>
       (Len(row) > 0 /\ row[1] \in UpperCase
          /\ \E i \in 1..Len(row) : row[i] = "+"))

LowerCase == {"a", "b", "c", "d", "e", "f", "g", "h", "i", "j", "k", "l", "m",
              "n", "o", "p", "q", "r", "s", "t", "u", "v", "w", "x", "y", "z"}

\* C12 amended: under Variant B a line is a record line iff its first
\* character is an ASCII letter, upper or lower case, and the line contains
\* '+' at any position; a line starting with any other character is never a
\* record line.
C12_ClassifyB ==
  (HasClassified /\ variant = "B") =>
    (classified <=>
       (Len(row) > 0 /\ row[1] \in UpperCase \cup LowerCase
          /\ \E i \in 1..Len(row) : row[i] = "+"))

C12_Witness ==
  /\ HasClassified /\ variant = "B" /\ classified
  /\ row[1] \in LowerCase

\* C13: a line classified under Variant A yields a record iff entity id,
\* year, month, day, extra code (offset 18, width 4), record number, tax
\* amount, net amount and allocation code are all decimal digits and the
\* date is in range.
C13_AllFieldsA ==
  (pc = "extracted" /\ variant = "A") =>
    (extracted # <<>> <=>
       /\ Numeric(Slice(row, 1, 10))
       /\ DateInRange(row)
       /\ Numeric(Slice(row, 18, 22))
       /\ Numeric(Slice(row, 22, 31))
       /\ Numeric(Slice(row, 31, 40))
       /\ Numeric(Slice(row, 41, 51))
       /\ Numeric(Slice(row, 51, 60)))

\* C14: the fields of a record extracted under Variant A are the slices of
\* the line at the offsets of the layout table, the numbers by their decimal
\* value and the record number without its leading zeros.
C14_FieldValuesA ==
  (pc = "extracted" /\ variant = "A" /\ extracted # <<>>) =>
    LET r == extracted[1]
    IN  /\ r.rowType = row[1]
        /\ r.businessNumber = Slice(row, 1, 10)
        /\ r.year = DecimalValue(Slice(row, 10, 14))
        /\ r.month = DecimalValue(Slice(row, 14, 16))
        /\ r.day = DecimalValue(Slice(row, 16, 18))
        /\ IsStripped(Slice(row, 22, 31), r.receiptNumber)
        /\ r.vatAmount = DecimalValue(Slice(row, 31, 40))
        /\ r.sumWithoutVat = DecimalValue(Slice(row, 41, 51))
        /\ r.allocationNumber = Slice(row, 51, 60)

C14_Witness ==
  /\ pc = "extracted" /\ variant = "A" /\ extracted # <<>>
  /\ Slice(row, 22, 31) = Rep("0", 9)
  /\ extracted[1].receiptNumber = <<"0">>

\* Offset of the first '+' of a line that has one.
FirstPlus(line) ==
  CHOOSE p \in 0..(Len(line) - 1) :
    line[p + 1] = "+" /\ \A q \in 0..(p - 1) : line[q + 1] # "+"

RecordExpectedB(line) ==
  LET p == FirstPlus(line)
  IN  /\ Len(line) >= 47
      /\ p - 9 >= 18
      /\ Len(Slice(line, 1, 10)) = 9 /\ Numeric(Slice(line, 1, 10))
      /\ DateInRange(line)
      /\ Numeric(Slice(line, p - 9, p))
      /\ Numeric(Slice(line, 18, p - 9))
      /\ Len(Slice(line, p + 1, p + 11)) = 10
      /\ Numeric(Slice(line, p + 1, p + 11))
      /\ Numeric(Slice(line, Len(line) - 9, Len(line)))

C16_RecordsValid ==
  (pc = "extracted" /\ extracted # <<>>) =>
    LET r == extracted[1]
    IN  /\ Len(r.businessNumber) = 9 /\ Numeric(r.businessNumber)
        /\ Len(r.allocationNumber) = 9 /\ Numeric(r.allocationNumber)
        /\ r.year \in 1900..2100
        /\ r.month \in 1..12
        /\ r.day \in 1..31
        /\ r.vatAmount \in Nat
        /\ r.sumWithoutVat \in Nat
        /\ Len(r.receiptNumber) > 0 /\ Numeric(r.receiptNumber)
        /\ r.receiptNumber[1] = "0" => r.receiptNumber = <<"0">>

C16_Witness ==
  /\ pc = "extracted" /\ variant = "B" /\ extracted # <<>>
  /\ extracted[1].receiptNumber = <<"0">>
  /\ Len(row) = 47

\* ------------------------------------------------------------------------
\* Search over the receipts of a parsed file
\* ------------------------------------------------------------------------
\* A search that compares the query as entered.
searchByReceiptNumber_Literal(receipts, receiptNumber) ==
  SelectSeq(receipts, LAMBDA receipt : receipt.receiptNumber = receiptNumber)

\* receipts.filter((receipt) => receipt.receiptNumber === normalizedSearch)
searchByReceiptNumber(receipts, receiptNumber) ==
  LET normalizedSearch == NormalizeNumber(receiptNumber)
  IN  SelectSeq(receipts,
                LAMBDA receipt : receipt.receiptNumber = normalizedSearch)

\* A search that returns the last matching receipt.
searchByReceiptAndBusiness_Last(receipts, receiptNumber, businessNumber) ==
  LET normalizedSearch == NormalizeNumber(receiptNumber)
      matches ==
        SelectSeq(receipts,
                  LAMBDA receipt :
                    /\ receipt.receiptNumber = normalizedSearch
                    /\ receipt.businessNumber = businessNumber)
  IN  IF matches = <<>> THEN <<>> ELSE <<matches[Len(matches)]>>

\* receipts.find(...) || null; <<>> for null and <<receipt>> for a receipt.
searchByReceiptAndBusiness(receipts, receiptNumber, businessNumber) ==
  LET normalizedSearch == NormalizeNumber(receiptNumber)
      matches ==
        SelectSeq(receipts,
                  LAMBDA receipt :
                    /\ receipt.receiptNumber = normalizedSearch
                    /\ receipt.businessNumber = businessNumber)
  IN  IF matches = <<>> THEN <<>> ELSE <<Head(matches)>>

MaxSearchLines == 3

\* Lines that share a receipt number, a business number, or both.
SearchCatalogue(v) ==
  IF v = "A"
  THEN {ExampleRowA,
        WithField(ExampleRowA, 1, Pad(123456789, 9)),
        WithField(ExampleRowA, AllocOffsetA, Pad(42, 9)),
        LowerRowA,
        HeaderLine}
  ELSE {DenseRowB,
        WithField(DenseRowB, 1, Pad(424673351, 9)),
        WithField(DenseRowB, 10, Pad(2024, 4)),
        MinimalRowB,
        HeaderLine}

Queries ==
  {<<>>, <<"x">>, Pad(0, 1), Pad(0, 2), Pad(14, 2), Pad(14, 4),
   Pad(6394, 4), Pad(6394, 6), Pad(639, 3)}

BusinessNumbers ==
  {Pad(719567, 9), Pad(123456789, 9), Pad(424673351, 9), Pad(111111111, 9),
   Pad(719567, 6)}

SearchInit ==
  /\ variant \in {"A", "B"}
  /\ \E n \in 1..MaxSearchLines :
       \E ls \in [1..n -> SearchCatalogue(variant)] :
         content = MakeContent(0, ls, [i \in 1..(n - 1) |-> <<LF>>])
  /\ pc = "input"
  /\ EditIdle
  /\ RowIdle
  /\ SearchIdle
  /\ SchemaIdle
  /\ RouteIdle
  /\ FetchIdle
  /\ DashIdle

\* const matches = searchByReceiptNumber(receipts, receiptNumber)
SearchNumber ==
  /\ pc = "parsed"
  /\ \E q \in Queries :
       /\ query' = q
       /\ found' = searchByReceiptNumber(parsed.receipts, q)
  /\ pc' = "searched"
  /\ UNCHANGED <<variant, content, parsed, lineNumber, allocationNumber,
                 updated, reparsed, updatedAgain, rowVars, entity, match,
                 schemaVars,
                 routeVars, fetchVars, dashVars>>

\* const match = searchByReceiptAndBusiness(receipts, receiptNumber,
\*                                          businessNumber)
SearchBusiness ==
  /\ pc = "searched"
  /\ \E b \in BusinessNumbers :
       /\ entity' = b
       /\ match' = searchByReceiptAndBusiness(parsed.receipts, query, b)
  /\ pc' = "matched"
  /\ UNCHANGED <<variant, content, parsed, lineNumber, allocationNumber,
                 updated, reparsed, updatedAgain, rowVars, query, found,
                 schemaVars,
                 routeVars, fetchVars, dashVars>>

SearchNext == Parse \/ SearchNumber \/ SearchBusiness

SpecSearch == SearchInit /\ [][SearchNext]_vars

\* ------------------------------------------------------------------------
\* Properties of search (SpecSearch)
\* ------------------------------------------------------------------------
MaxZeros == 2

\* The k-th smallest element of a set of numbers.
Nth(S, k) == CHOOSE i \in S : Cardinality({j \in S : j < i}) = k - 1

\* Positions of the receipts whose number is the query without its leading
\* zeros.
NumberHits(rs, q) ==
  {i \in 1..Len(rs) : IsStripped(q, rs[i].receiptNumber)}

\* C17: the search by record number returns exactly the records whose number
\* equals the query without its leading zeros ("0" for an empty or all-zero
\* query), in file order, each once; prepending zeros to the query does not
\* change the result, and normalising a normalised query changes nothing.
C17_SearchByNumber ==
  pc \in {"searched", "matched"} =>
    LET rs == parsed.receipts
        hits == NumberHits(rs, query)
    IN  /\ Len(found) = Cardinality(hits)
        /\ \A k \in 1..Len(found) : found[k] = rs[Nth(hits, k)]
        /\ \A z \in 1..MaxZeros :
             searchByReceiptNumber(rs, Rep("0", z) \o query) = found
        /\ NormalizeNumber(NormalizeNumber(query)) = NormalizeNumber(query)

C17_Witness ==
  /\ pc = "searched"
  /\ Len(found) >= 2
  /\ Len(found) < Len(parsed.receipts)
  /\ Len(query) > 1
  /\ query[1] = "0"

BothHits(rs, q, b) ==
  {i \in NumberHits(rs, q) : rs[i].businessNumber = b}

\* C18: the search by record number and entity returns the first record in
\* file order whose number equals the normalised query and whose entity id
\* equals the given one, and none iff there is no such record; a returned
\* record is one of those the search by record number returns.
C18_SearchByNumberAndBusiness ==
  pc = "matched" =>
    LET rs == parsed.receipts
        hits == BothHits(rs, query, entity)
    IN  /\ match = <<>> <=> hits = {}
        /\ match # <<>> =>
             /\ match[1] = rs[Nth(hits, 1)]
             /\ \E k \in 1..Len(found) : found[k] = match[1]

C18_Witness ==
  /\ pc = "matched"
  /\ match # <<>>
  /\ Cardinality(BothHits(parsed.receipts, query, entity)) >= 2
  /\ Len(found) > Cardinality(BothHits(parsed.receipts, query, entity))

\* ------------------------------------------------------------------------
\* Files with several line boundaries, edited once
\* ------------------------------------------------------------------------
MaxEndingLines == 3

EndingCatalogue(v) ==
  IF v = "A" THEN {ExampleRowA, HeaderLine} ELSE {MinimalRowB, BlankLine}

EndingsInit ==
  /\ variant \in {"A", "B"}
  /\ \E b \in 0..1, n \in 1..MaxEndingLines :
       \E ls \in [1..n -> EndingCatalogue(variant)],
          ts \in [1..(n - 1) -> Terminators] :
         content = MakeContent(b, ls, ts)
  /\ pc = "input"
  /\ EditIdle
  /\ RowIdle
  /\ SearchIdle
  /\ SchemaIdle
  /\ RouteIdle
  /\ FetchIdle
  /\ DashIdle

EndingsNext == Parse \/ Update

SpecEndings == EndingsInit /\ [][EndingsNext]_vars

\* Offsets of the '\r\n' pairs of a text.
CRLFPairs(text) ==
  {i \in 1..(Len(text) - 1) : text[i] = CR /\ text[i + 1] = LF}

\* Number of line boundaries of a text: '\r\n', or '\r' or '\n' alone.
Boundaries(text) ==
  Cardinality({i \in 1..Len(text) : text[i] \in {CR, LF}})
    - Cardinality(CRLFPairs(text))

\* C19: when update succeeds on a content holding at least one '\r\n',
\* every line boundary of the output is '\r\n'; otherwise every line boundary
\* of the output is '\n'. The output has the boundaries of the input, never
\* two styles and never a '\r' on its own.
C19_GlobalLineEnding ==
  (pc = "updated" /\ updated.status = "ok") =>
    LET out == updated.text
        n == Len(out)
    IN  /\ Boundaries(out) = Boundaries(content)
        /\ IF CRLFPairs(content) # {}
           THEN \A i \in 1..n :
                  /\ out[i] = CR => (i < n /\ out[i + 1] = LF)
                  /\ out[i] = LF => (i > 1 /\ out[i - 1] = CR)
           ELSE \A i \in 1..n : out[i] # CR

C19_Witness ==
  /\ pc = "updated" /\ updated.status = "ok"
  /\ CRLFPairs(content) # {}
  /\ Boundaries(content) > Cardinality(CRLFPairs(content))
  /\ Cardinality(CRLFPairs(updated.text)) = Boundaries(content)

\* ------------------------------------------------------------------------
\* An update request: the allocation number through allocationNumberSchema,
\* then the update of the receipt's line
\* ------------------------------------------------------------------------
\* String.prototype.padStart(targetLength, c) for a one-character c.
PadStart(s, targetLength, c) ==
  IF Len(s) >= targetLength THEN s ELSE Rep(c, targetLength - Len(s)) \o s

\* The schema without its transform.
allocationNumberSchema_NoTransform(val) ==
  IF Len(val) < 1 THEN <<>>
  ELSE IF Len(val) > 9 THEN <<>>
  ELSE IF ~AllDigits(val) THEN <<>>
  ELSE <<val>>

\* z.string().min(1).max(9).regex(/^\d+$/).transform(padStart(9, '0')):
\* <<>> when validation fails and <<value>> when it succeeds.
allocationNumberSchema(val) ==
  IF Len(val) < 1 THEN <<>>
  ELSE IF Len(val) > 9 THEN <<>>
  ELSE IF ~AllDigits(val) THEN <<>>
  ELSE <<PadStart(val, 9, "0")>>

MaxRawLen == 10

\* The first k characters of 1234567890 1234567890 ...
DigitRun(k) == [i \in 1..k |-> DigitChars[(i % 10) + 1]]

\* Allocation numbers as entered: digit strings of every length up to
\* MaxRawLen, all-zero strings, the same with one character that is not a
\* digit, and with a trailing line feed or space.
RawAllocations ==
  LET runs == {DigitRun(k) : k \in 0..MaxRawLen}
                \cup {Rep("0", k) : k \in 0..MaxRawLen}
  IN  runs
        \cup UNION {{[r EXCEPT ![i] = c] : c \in {"x", "-", SP},
                                            i \in 1..Len(r)} : r \in runs}
        \cup {r \o <<c>> : r \in runs, c \in {LF, SP}}

RowIndexes == 0..MaxLines

SchemaInit ==
  /\ variant \in {"A", "B"}
  /\ \E n \in 1..MaxLines :
       \E ls \in [1..n -> Catalogue(variant)] :
         content = MakeContent(0, ls, [i \in 1..(n - 1) |-> <<LF>>])
  /\ rawAllocation \in RawAllocations
  /\ schemaResult = <<>>
  /\ pc = "request"
  /\ EditIdle
  /\ RowIdle
  /\ SearchIdle
  /\ RouteIdle
  /\ FetchIdle
  /\ DashIdle

\* updateReceiptRequestSchema.safeParse(body)
ValidateRequest ==
  /\ pc = "request"
  /\ schemaResult' = allocationNumberSchema(rawAllocation)
  /\ pc' = IF schemaResult' = <<>> THEN "rejected" ELSE "validated"
  /\ UNCHANGED <<variant, content, parsed, lineNumber, allocationNumber,
                 updated, reparsed, updatedAgain, rowVars, searchVars,
                 rawAllocation, routeVars, fetchVars, dashVars>>

\* parseFile(fileContent), the receipt with the requested rowIndex, then
\* updateAllocation(fileContent, targetReceipt.lineNumber, allocationNumber)
UpdateRequest ==
  /\ pc = "validated"
  /\ parsed' = parseFile(variant, content)
  /\ allocationNumber' = schemaResult[1]
  /\ \E rowIndex \in RowIndexes :
       LET targets == SelectSeq(parsed'.receipts,
                                LAMBDA r : r.rowIndex = rowIndex)
       IN  IF targets = <<>>
           THEN /\ lineNumber' = 0
                /\ updated' = Failure("RowNotFound")
           ELSE /\ lineNumber' = Head(targets).lineNumber
                /\ updated' = updateAllocation(variant, content,
                                               Head(targets).lineNumber,
                                               schemaResult[1])
  /\ pc' = "responded"
  /\ UNCHANGED <<variant, content, reparsed, updatedAgain, rowVars,
                 searchVars, schemaVars,
                 routeVars, fetchVars, dashVars>>

SchemaNext == ValidateRequest \/ UpdateRequest

SpecSchema == SchemaInit /\ [][SchemaNext]_vars

\* C20: allocationNumberSchema accepts exactly the strings of 1 to 9 decimal
\* digits; the value it yields is 9 digits long and is the input with zeros
\* added on the left; an update made with that value never fails for an
\* invalid allocation number.
C20_SchemaPads ==
  pc \in {"validated", "rejected", "responded"} =>
    /\ schemaResult # <<>> <=>
         (Len(rawAllocation) \in 1..9 /\ Numeric(rawAllocation))
    /\ schemaResult # <<>> =>
         LET padded == schemaResult[1]
             k == 9 - Len(rawAllocation)
         IN  /\ Len(padded) = 9
             /\ Numeric(padded)
             /\ \A i \in 1..k : padded[i] = "0"
             /\ \A i \in 1..Len(rawAllocation) : padded[k + i] = rawAllocation[i]
    /\ pc = "responded" => updated # Failure("InvalidAllocation")

C20_Witness ==
  /\ pc = "responded"
  /\ Len(rawAllocation) < 9
  /\ updated.status = "ok"

\* ------------------------------------------------------------------------
\* Field boundaries, and the agreement of parser and editor
\* ------------------------------------------------------------------------
\* C25: in every line that Variant B extracts as a record, with p the offset
\* of the first '+', the net amount at [p+1, p+11) ends at or before the
\* start of the final 9 characters: p + 20 <= length of the line.
C25_NoOverlapB ==
  (pc = "extracted" /\ variant = "B" /\ extracted # <<>>) =>
    FirstPlus(row) + 20 <= Len(row)

\* C26: an update with a 9-digit allocation number, addressed to the line
\* number of a record that parse returned for the same content, succeeds.
C26_ParserEditorAgree ==
  (/\ pc = "updated"
   /\ Len(allocationNumber) = 9 /\ Numeric(allocationNumber)
   /\ \E i \in 1..Len(parsed.receipts) :
        parsed.receipts[i].lineNumber = lineNumber)
    => updated.status = "ok"

\* A row whose only defect is a letter in the allocation number.
RepairableRowA == [ExampleRowA EXCEPT ![56] = "x"]
RepairableRowB == [ExampleRowB EXCEPT ![56] = "x"]

FrameCatalogue(v) ==
  IF v = "A" THEN {ExampleRowA, RepairableRowA, HeaderLine}
  ELSE {ExampleRowB, RepairableRowB, HeaderLine}

FrameInit ==
  /\ variant \in {"A", "B"}
  /\ \E n \in 1..MaxLines :
       \E ls \in [1..n -> FrameCatalogue(variant)],
          ts \in [1..(n - 1) -> Terminators] :
         content = MakeContent(0, ls, ts)
  /\ pc = "input"
  /\ EditIdle
  /\ RowIdle
  /\ SearchIdle
  /\ SchemaIdle
  /\ RouteIdle
  /\ FetchIdle
  /\ DashIdle

FrameNext == Parse \/ Update \/ Reparse

SpecFrame == FrameInit /\ [][FrameNext]_vars

\* C27: after a successful update, parse of the output returns as many
\* records as parse of the input, with the same map from sequence index to
\* line number.
C27_RecordsKept ==
  pc = "reparsed" =>
    /\ Len(reparsed.receipts) = Len(parsed.receipts)
    /\ reparsed.lineMap = parsed.lineMap

\* ------------------------------------------------------------------------
\* The API routes: POST /api/parse and POST /api/update-receipt
\* ------------------------------------------------------------------------
\* null, as distinct from every text.
Null == <<"null">>

\* String.prototype.startsWith(prefix)
StartsWith(s, prefix) ==
  Len(s) >= Len(prefix) /\ SubSeq(s, 1, Len(prefix)) = prefix

BearerPrefix == <<"B", "e", "a", "r", "e", "r", SP>>

\* A message or an error is <<>> for null and <<text>> otherwise; the empty
\* text is falsy like null.
Truthy(e) == e # <<>> /\ e[1] # ""

\* What supabase.auth.getUser(token) can do: resolve to { data, error }, or
\* throw an Error, or throw something that is not an Error.
Resolved(user, error) ==
  [kind |-> "resolved", user |-> user, error |-> error, message |-> ""]
Thrown(message) ==
  [kind |-> "thrown", user |-> <<>>, error |-> <<>>, message |-> message]
ThrownOther ==
  [kind |-> "thrownOther", user |-> <<>>, error |-> <<>>, message |-> ""]

AuthFailure(message) == [user |-> <<>>, error |-> <<message>>]

\* verifyJWT(request)
verifyJWT(authHeader, answer) ==
  IF authHeader = Null \/ authHeader = <<>> \/ ~StartsWith(authHeader, BearerPrefix)
  THEN AuthFailure("Missing or invalid Authorization header")
  ELSE IF answer.kind = "thrown" THEN AuthFailure(answer.message)
  ELSE IF answer.kind = "thrownOther" THEN AuthFailure("Token verification failed")
  ELSE IF answer.error # <<>> \/ answer.user = <<>>
       THEN AuthFailure(IF Truthy(answer.error) THEN answer.error[1]
                        ELSE "Invalid token")
       ELSE [user |-> <<[id |-> answer.user[1].id,
                         email |-> IF answer.user[1].email = <<>> THEN ""
                                   ELSE answer.user[1].email[1]]>>,
             error |-> <<>>]

\* A guard that looks at the error only.
rejects_ErrorOnly(a) == Truthy(a.error)

\* if (authError || !user)
rejects(a) == Truthy(a.error) \/ a.user = <<>>

\* NextResponse.json(body, { status })
Json(status, code, error, data) ==
  [status |-> status, success |-> (status = 200), code |-> code,
   error |-> error, data |-> data]

UnauthorizedResponse(a) ==
  Json(401, "UNAUTHORIZED",
       IF Truthy(a.error) THEN a.error[1] ELSE "Unauthorized", <<>>)

\* content.trim().split(/\r?\n/): a '\r' goes with the '\n' that follows it,
\* a '\r' on its own is an ordinary character.
SplitRows(text) ==
  LET t == Trim(text)
      marked == [i \in 1..Len(t) |->
                   IF t[i] = CR /\ i < Len(t) /\ t[i + 1] = LF THEN "dropped"
                   ELSE t[i]]
  IN  SplitOn(SelectSeq(marked, LAMBDA c : c # "dropped"), LF)

\* fileContentSchema: not empty, and some row of 60 characters that starts
\* with T or t and has '+' at offset 40.
fileContentSchema(text) ==
  /\ Len(text) >= 1
  /\ \E lines \in {SplitRows(text)} :
       \E i \in 1..Len(lines) :
         /\ Len(lines[i]) > 0 /\ IsMarkerT(lines[i][1])
         /\ Len(lines[i]) = 60
         /\ CharAt(lines[i], 40) = "+"

\* What a route leaves behind: the result of verifyJWT, of the validation
\* of the body, of each call into the parser, and the response.
RouteResult(a, validation, p, l, u, rp, resp) ==
  [auth |-> a, schemaResult |-> validation, parsed |-> p, lineNumber |-> l,
   updated |-> u, reparsed |-> rp, response |-> resp]

Untouched(a, resp) ==
  RouteResult(a, <<>>, EmptyParse, 0, Failure("unset"), EmptyParse, resp)

\* POST of src/app/api/parse/route.ts, from the result of parseFile on
parseResponse(a, p) ==
  IF Len(p.receipts) = 0
  THEN RouteResult(a, <<>>, p, 0, Failure("unset"), EmptyParse,
                   Json(400, "NO_RECEIPTS", "no receipts", <<>>))
  ELSE RouteResult(a, <<>>, p, 0, Failure("unset"), EmptyParse,
                   Json(200, "OK", "",
                        <<[receipts |-> p.receipts,
                           totalReceipts |-> Len(p.receipts)]>>))

\* POST of src/app/api/parse/route.ts, from the result of verifyJWT on
parseAuthorized(a, fileContent, fileName) ==
  IF rejects(a) THEN Untouched(a, UnauthorizedResponse(a))
  ELSE IF ~(fileContentSchema(fileContent) /\ Len(fileName) >= 1)
  THEN Untouched(a, Json(400, "VALIDATION_ERROR", "invalid", <<>>))
  ELSE parseResponse(a, parseFile("B", fileContent))

\* POST of src/app/api/parse/route.ts
parseRoute(authHeader, answer, fileContent, fileName) ==
  parseAuthorized(verifyJWT(authHeader, answer), fileContent, fileName)

\* The line of the row index plus one, whatever record was found.
targetLine_FromIndex(targets, rowIndex) == rowIndex + 1

\* targetReceipt.lineNumber
targetLine(targets, rowIndex) == Head(targets).lineNumber

\* POST of the update-receipt route, from the second receipts.find on
updateVerified(a, validation, p, l, u, rp, modified) ==
  IF modified = <<>>
  THEN RouteResult(a, validation, p, l, u, rp,
                   Json(500, "UPDATE_ERROR", "Failed to verify update", <<>>))
  ELSE RouteResult(a, validation, p, l, u, rp,
                   Json(200, "OK", "",
                        <<[modifiedContent |-> u.text,
                           modifiedReceipt |-> Head(modified)]>>))

\* POST of the update-receipt route, from the second parseFile on
updateReparsed(a, validation, rowIndex, p, l, u, rp) ==
  updateVerified(a, validation, p, l, u, rp,
                 SelectSeq(rp.receipts, LAMBDA r : r.rowIndex = rowIndex))

\* POST of the update-receipt route, from the result of updateAllocation on
updateRewritten(a, validation, rowIndex, p, l, u) ==
  IF u.status # "ok"
  THEN RouteResult(a, validation, p, l, u, EmptyParse,
                   Json(500, "UPDATE_ERROR", u.status, <<>>))
  ELSE updateReparsed(a, validation, rowIndex, p, l, u, parseFile("B", u.text))

\* POST of the update-receipt route, from the target's line on
updateTargeted(a, validation, fileContent, rowIndex, p, l) ==
  updateRewritten(a, validation, rowIndex, p, l,
                  updateAllocation("B", fileContent, l, validation[1]))

\* POST of the update-receipt route, from the first receipts.find on
updateFound(a, validation, fileContent, rowIndex, p, targets) ==
  IF targets = <<>>
  THEN RouteResult(a, validation, p, 0, Failure("unset"), EmptyParse,
                   Json(400, "ROW_NOT_FOUND", "not found", <<>>))
  ELSE updateTargeted(a, validation, fileContent, rowIndex, p,
                      targetLine(targets, rowIndex))

\* POST of the update-receipt route, from the first parseFile on
updateParsed(a, validation, fileContent, rowIndex, p) ==
  updateFound(a, validation, fileContent, rowIndex, p,
              SelectSeq(p.receipts, LAMBDA r : r.rowIndex = rowIndex))

\* POST of the update-receipt route, from the results of verifyJWT and of
\* updateReceiptRequestSchema on
updateAuthorized(a, validation, fileContent, rowIndex) ==
  IF rejects(a) THEN Untouched(a, UnauthorizedResponse(a))
  ELSE IF ~(Len(fileContent) >= 1 /\ rowIndex >= 0 /\ validation # <<>>)
  THEN RouteResult(a, validation, EmptyParse, 0, Failure("unset"),
                   EmptyParse,
                   Json(400, "VALIDATION_ERROR", "invalid", <<>>))
  ELSE updateParsed(a, validation, fileContent, rowIndex,
                    parseFile("B", fileContent))

\* POST of the update-receipt route
updateReceiptRoute(authHeader, answer, fileContent, rowIndex, raw) ==
  updateAuthorized(verifyJWT(authHeader, answer), allocationNumberSchema(raw),
                   fileContent, rowIndex)

MaxRouteLines == 2

\* Authorization headers: none, empty, another scheme, the scheme without
\* its space, the scheme in lower case, and a bearer token.
AuthHeaders ==
  {Null, <<>>, <<"B", "a", "s", "i", "c", SP, "x">>,
   <<"B", "e", "a", "r", "e", "r">>,
   <<"b", "e", "a", "r", "e", "r", SP, "x">>,
   BearerPrefix \o <<"x">>}

SomeUser == [id |-> "u1", email |-> <<"a@b.c">>]

GetUserAnswers ==
  {Resolved(<<SomeUser>>, <<>>),
   Resolved(<<[SomeUser EXCEPT !.email = <<>>]>>, <<>>),
   Resolved(<<>>, <<"JWT expired">>),
   Resolved(<<>>, <<"">>),
   Resolved(<<>>, <<>>),
   Resolved(<<SomeUser>>, <<"JWT expired">>),
   Thrown("fetch failed"),
   Thrown(""),
   ThrownOther}

\* Lines of an uploaded file: a T row that Variant B also accepts, rows of
\* Variant B without padding, with a space after and with a space before,
\* and a header.
LeadingSpaceRowB == <<SP>> \o MinimalRowB

RouteCatalogue ==
  {ExampleRowA, MinimalRowB, PaddedRowB, LeadingSpaceRowB, HeaderLine}

RouteContents ==
  {<<>>} \cup
  UNION {{MakeContent(0, ls, [i \in 1..(n - 1) |-> <<LF>>]) :
            ls \in [1..n -> RouteCatalogue]} : n \in 1..MaxRouteLines}

RouteInit ==
  /\ variant = "B"
  /\ content \in RouteContents
  /\ rawAllocation \in {<<"4", "2">>, Pad(7, 9), <<"x">>}
  /\ schemaResult = <<>>
  /\ request \in [route : {"parse", "update"},
                  authorization : AuthHeaders,
                  fileName : {<<>>, <<"f">>},
                  rowIndex : (0 - 1)..MaxRouteLines]
  /\ (request.route = "parse" => request.rowIndex = 0)
  /\ (request.route = "update" => request.fileName = <<>>)
  /\ getUser \in GetUserAnswers
  /\ auth = <<>>
  /\ response = <<>>
  /\ pc = "received"
  /\ EditIdle
  /\ RowIdle
  /\ SearchIdle
  /\ FetchIdle
  /\ DashIdle

PostParse ==
  /\ pc = "received"
  /\ request.route = "parse"
  /\ \E res \in {parseRoute(request.authorization, getUser, content,
                           request.fileName)} :
         /\ auth' = res.auth
         /\ parsed' = res.parsed
         /\ response' = res.response
  /\ pc' = "sent"
  /\ UNCHANGED <<variant, content, lineNumber, allocationNumber, updated,
                 reparsed, updatedAgain, rowVars, searchVars, schemaVars,
                 request, getUser, fetchVars, dashVars>>

PostUpdateReceipt ==
  /\ pc = "received"
  /\ request.route = "update"
  /\ \E res \in {updateReceiptRoute(request.authorization, getUser, content,
                                   request.rowIndex, rawAllocation)} :
         /\ auth' = res.auth
         /\ schemaResult' = res.schemaResult
         /\ parsed' = res.parsed
         /\ lineNumber' = res.lineNumber
         /\ allocationNumber' =
              IF res.schemaResult = <<>> THEN <<>> ELSE res.schemaResult[1]
         /\ updated' = res.updated
         /\ reparsed' = res.reparsed
         /\ response' = res.response
  /\ pc' = "sent"
  /\ UNCHANGED <<variant, content, updatedAgain, rowVars, searchVars,
                 rawAllocation, request, getUser, fetchVars, dashVars>>

RouteNext == PostParse \/ PostUpdateReceipt

SpecRoute == RouteInit /\ [][RouteNext]_vars

\* ------------------------------------------------------------------------
\* Properties of the routes (SpecRoute)
\* ------------------------------------------------------------------------
\* The header is absent or does not start with "Bearer ".
NotBearer(h) ==
  \/ h = Null
  \/ Len(h) < 7
  \/ <<h[1], h[2], h[3], h[4], h[5], h[6], h[7]>>
       # <<"B", "e", "a", "r", "e", "r", SP>>

\* Nothing of the body has been validated, parsed or rewritten.
BodyUntouched == schemaResult = <<>> /\ EditIdle

\* C21: in both routes, when verifyJWT reports an error or no user, or the
\* Authorization header is missing or not a Bearer header, the response is
\* 401 UNAUTHORIZED and the body is never validated, parsed or rewritten.
C21_AuthBeforeBody ==
  pc = "sent" =>
    ((auth.error # <<>> \/ auth.user = <<>> \/ NotBearer(request.authorization))
       => /\ response.status = 401
          /\ response.code = "UNAUTHORIZED"
          /\ BodyUntouched)

C21_Witness ==
  /\ pc = "sent"
  /\ ~NotBearer(request.authorization)
  /\ getUser = Thrown("")
  /\ response.status = 401
  /\ content # <<>>

\* The allocation number of the request, padded with zeros to 9 digits.
PaddedRequestValue == Rep("0", 9 - Len(rawAllocation)) \o rawAllocation

\* The request got through verifyJWT and through updateReceiptRequestSchema.
PassedValidation ==
  /\ request.route = "update"
  /\ response.status # 401
  /\ Len(content) >= 1
  /\ request.rowIndex >= 0
  /\ Len(rawAllocation) \in 1..9 /\ Numeric(rawAllocation)

Rejected == 0

\* What fetch can do: resolve to a response with a status, or reject.
FetchAnswers == {200, 400, 401, 500, Rejected}

\* What getAccessToken returns: null or a token.
AccessTokens == {<<>>, <<"t1">>}

\* What refreshSession returns: { session, error }.
RefreshAnswers ==
  {[session |-> <<>>, error |-> <<"refresh failed">>],
   [session |-> <<>>, error |-> <<"">>],
   [session |-> <<>>, error |-> <<>>],
   [session |-> <<[access_token |-> "t1"]>>, error |-> <<>>],
   [session |-> <<[access_token |-> "t2"]>>, error |-> <<>>]}

Returned(status) == [kind |-> "returned", status |-> status, name |-> ""]
Threw(name) == [kind |-> "threw", status |-> 0, name |-> name]
Running == [kind |-> "running", status |-> 0, name |-> ""]

FetchInit ==
  /\ fetchEnv \in [token : AccessTokens, first : FetchAnswers,
                   refresh : RefreshAnswers, second : FetchAnswers]
  /\ fetchRun = [at |-> "getAccessToken", token |-> <<>>, requests |-> <<>>,
                 refreshes |-> 0, outcome |-> Running]
  /\ variant = "B"
  /\ content = <<>>
  /\ pc = "fetch"
  /\ EditIdle
  /\ RowIdle
  /\ SearchIdle
  /\ SchemaIdle
  /\ RouteIdle
  /\ DashIdle

FetchFrame ==
  UNCHANGED <<variant, content, pc, parsed, lineNumber, allocationNumber,
              updated, reparsed, updatedAgain, rowVars, searchVars,
              schemaVars, routeVars, fetchEnv, dashVars>>

\* let token = await getAccessToken(); if (!token) throw ...
GetAccessToken ==
  /\ pc = "fetch"
  /\ fetchRun.at = "getAccessToken"
  /\ fetchRun' =
       IF fetchEnv.token = <<>>
       THEN [fetchRun EXCEPT !.at = "done",
                             !.outcome = Threw("SessionExpiredError")]
       ELSE [fetchRun EXCEPT !.at = "fetch", !.token = fetchEnv.token]
  /\ FetchFrame

\* let response = await fetch(url, ...); if (response.status === 401) ...
FirstFetch ==
  /\ pc = "fetch"
  /\ fetchRun.at = "fetch"
  /\ LET sent == [fetchRun EXCEPT
                    !.requests = Append(@, fetchRun.token[1])]
     IN  fetchRun' =
           IF fetchEnv.first = Rejected
           THEN [sent EXCEPT !.at = "done", !.outcome = Threw("TypeError")]
           ELSE IF fetchEnv.first = 401
           THEN [sent EXCEPT !.at = "refreshSession"]
           ELSE [sent EXCEPT !.at = "done",
                             !.outcome = Returned(fetchEnv.first)]
  /\ FetchFrame

\* A refresh whose failure is told by the error alone.
refreshFailed_ErrorOnly(answer) == Truthy(answer.error)

\* if (error || !session)
refreshFailed(answer) == Truthy(answer.error) \/ answer.session = <<>>

\* const { session, error } = await refreshSession(); ...
RefreshSession ==
  /\ pc = "fetch"
  /\ fetchRun.at = "refreshSession"
  /\ LET asked == [fetchRun EXCEPT !.refreshes = @ + 1]
     IN  fetchRun' =
           IF refreshFailed(fetchEnv.refresh)
           THEN [asked EXCEPT !.at = "done",
                              !.outcome = Threw("SessionExpiredError")]
           ELSE [asked EXCEPT
                   !.at = "retry",
                   !.token = IF fetchEnv.refresh.session = <<>> THEN <<>>
                             ELSE <<fetchEnv.refresh.session[1].access_token>>]
  /\ FetchFrame

\* response = await fetch(url, ...); return response
RetryFetch ==
  /\ pc = "fetch"
  /\ fetchRun.at = "retry"
  /\ LET sent == [fetchRun EXCEPT
                    !.requests = Append(@, IF fetchRun.token = <<>>
                                           THEN "undefined"
                                           ELSE fetchRun.token[1])]
     IN  fetchRun' =
           IF fetchEnv.second = Rejected
           THEN [sent EXCEPT !.at = "done", !.outcome = Threw("TypeError")]
           ELSE [sent EXCEPT !.at = "done",
                             !.outcome = Returned(fetchEnv.second)]
  /\ FetchFrame

FetchNext == GetAccessToken \/ FirstFetch \/ RefreshSession \/ RetryFetch

SpecFetch == FetchInit /\ [][FetchNext]_vars

\* C22: a call of fetchWithAuth issues at most two requests and at most one
\* refresh. With no token it throws SessionExpiredError and issues nothing;
\* otherwise it issues the request once and refreshes only after a 401; it
\* throws SessionExpiredError when the refresh reports an error or no
\* session; otherwise it issues the request once more, with the refreshed
\* token, and returns the second response whatever its status.
C22_RetryOnce ==
  pc = "fetch" =>
    LET run == fetchRun
        env == fetchEnv
        refreshOk == env.refresh.session # <<>>
                       /\ (env.refresh.error = <<>> \/ env.refresh.error = <<"">>)
    IN  /\ Len(run.requests) <= 2
        /\ run.refreshes <= 1
        /\ run.refreshes = 1 => (Len(run.requests) >= 1 /\ env.first = 401)
        /\ Len(run.requests) = 2 => run.refreshes = 1
        /\ run.at = "done" =>
             IF env.token = <<>>
             THEN /\ run.outcome = Threw("SessionExpiredError")
                  /\ run.requests = <<>>
                  /\ run.refreshes = 0
             ELSE IF env.first # 401
             THEN /\ run.requests = <<env.token[1]>>
                  /\ run.refreshes = 0
                  /\ env.first # Rejected => run.outcome = Returned(env.first)
             ELSE IF ~refreshOk
             THEN /\ run.outcome = Threw("SessionExpiredError")
                  /\ run.requests = <<env.token[1]>>
                  /\ run.refreshes = 1
             ELSE /\ run.requests =
                       <<env.token[1], env.refresh.session[1].access_token>>
                  /\ run.refreshes = 1
                  /\ env.second # Rejected =>
                       run.outcome = Returned(env.second)

C22_Witness ==
  /\ pc = "fetch"
  /\ fetchRun.at = "done"
  /\ fetchRun.requests = <<"t1", "t2">>
  /\ fetchRun.outcome = Returned(401)

\* ------------------------------------------------------------------------
\* The dashboard page and its three components
\* ------------------------------------------------------------------------
MaxUploads == 2
MaxSubmits == 2

\* A T row of 60 characters with '+' at offset 40, as the upload schema
\* requires; the parser takes the 13 characters before the VAT amount as
\* the receipt section.
DashRow(business, receipt) ==
  <<"T">> \o Pad(business, 9) \o Pad(2025, 4) \o Pad(11, 2) \o Pad(2, 2)
    \o Pad(0, 4) \o Pad(receipt, 9) \o Pad(719, 9) \o <<"+">>
    \o Pad(0, 10) \o Pad(0, 9)

\* The files the user can pick: two receipts with different numbers, and
\* two receipts with one number and different businesses.
UploadableFiles ==
  {[fileName |-> <<"a">>,
    text |-> MakeContent(0, <<DashRow(424673351, 14), DashRow(424673351, 15)>>,
                         <<<<LF>>>>)],
   [fileName |-> <<"b">>,
    text |-> MakeContent(0, <<DashRow(424673351, 14), DashRow(111111111, 14)>>,
                         <<<<LF>>>>)]}

\* What the user types into the search and allocation inputs.
DashQueries == {Pad(14, 2), Pad(15, 4)}
DashBusinessNumbers == {Pad(424673351, 9), Pad(111111111, 9)}
DashAllocations == {<<"1">>, <<"2">>, <<"x">>}

\* The Authorization header the components send, and what the server's
\* getUser can answer to it.
DashHeader(token) == BearerPrefix \o token
DashAnswers == {Resolved(<<SomeUser>>, <<>>), Resolved(<<>>, <<"JWT expired">>)}

UploadRequest(file) ==
  [kind |-> "upload", fileContent |-> file.text, fileName |-> file.fileName,
   rowIndex |-> 0, allocationNumber |-> <<>>, closure |-> <<>>,
   token |-> <<"t1">>, mounted |-> TRUE]

\* The body AllocationForm sends, the fileData its onAllocationSuccess was
\* created with, and whether the form that sent it is still mounted.
UpdateRequestOf(data, receipt, allocation, token) ==
  [kind |-> "update", fileContent |-> data[1].modifiedContent,
   fileName |-> data[1].fileName, rowIndex |-> receipt.rowIndex,
   allocationNumber |-> allocation, closure |-> data,
   token |-> token, mounted |-> TRUE]

Without(seq, i) ==
  [j \in 1..(Len(seq) - 1) |-> IF j < i THEN seq[j] ELSE seq[j + 1]]

\* The AllocationForm that sent these requests has been unmounted.
Unmounted(requests) ==
  [j \in 1..Len(requests) |-> [requests[j] EXCEPT !.mounted = FALSE]]

\* handleUploadSuccess(receipts, content, fileName)
handleUploadSuccess(receipts, text, fileName) ==
  <<[fileName |-> fileName, originalContent |-> text,
     modifiedContent |-> text, receipts |-> receipts,
     totalReceipts |-> Len(receipts), modifiedCount |-> 0]>>

\* handleAllocationSuccess(modifiedContent, modifiedReceipt), created when
\* fileData was data
handleAllocationSuccess(data, modifiedContent, modifiedReceipt) ==
  LET updatedReceipts ==
        [j \in 1..Len(data[1].receipts) |->
           IF data[1].receipts[j].rowIndex = modifiedReceipt.rowIndex
           THEN modifiedReceipt ELSE data[1].receipts[j]]
      originalReceipt ==
        SelectSeq(data[1].receipts,
                  LAMBDA r : r.rowIndex = modifiedReceipt.rowIndex)
      wasAlreadyModified ==
        \/ originalReceipt = <<>>
        \/ Head(originalReceipt).allocationNumber
             # modifiedReceipt.allocationNumber
  IN  <<[data[1] EXCEPT !.modifiedContent = modifiedContent,
                        !.receipts = updatedReceipts,
                        !.modifiedCount =
                          IF wasAlreadyModified THEN @ + 1 ELSE @]>>

\* What DashboardPage renders.
Sections ==
  {"FileUploader"}
    \cup (IF fileData # <<>> /\ fileData[1].modifiedCount > 0
          THEN {"Warning"} ELSE {})
    \cup (IF fileData # <<>>
          THEN {"FileStatus", "ReceiptSearch",
                IF selectedReceipt # <<>> THEN "AllocationForm"
                ELSE "FileDownload"}
          ELSE {})

DashInit ==
  /\ fileData = <<>>
  /\ selectedReceipt = <<>>
  /\ pending = <<>>
  /\ form = [isLoading |-> FALSE, isUploading |-> FALSE]
  /\ history = [uploads |-> 0, submits |-> 0, installs |-> 0,
                loaded |-> <<>>, changed |-> {}, applied |-> {}]
  /\ variant = "B"
  /\ content = <<>>
  /\ pc = "dashboard"
  /\ EditIdle
  /\ RowIdle
  /\ SearchIdle
  /\ SchemaIdle
  /\ RouteIdle
  /\ FetchIdle

DashFrame ==
  UNCHANGED <<variant, content, pc, parsed, lineNumber, allocationNumber,
              updated, reparsed, updatedAgain, rowVars, searchVars,
              schemaVars, routeVars, fetchVars>>

\* FileUploader.handleUpload, up to the request it sends
Upload ==
  /\ pc = "dashboard"
  /\ ~form.isUploading
  /\ history.uploads < MaxUploads
  /\ \E file \in UploadableFiles, token \in AccessTokens :
       /\ history' = [history EXCEPT !.uploads = @ + 1]
       /\ IF token = <<>>
          THEN UNCHANGED <<pending, form>>
          ELSE /\ pending' = Append(pending, UploadRequest(file))
               /\ form' = [form EXCEPT !.isUploading = TRUE]
  /\ UNCHANGED <<fileData, selectedReceipt>>
  /\ DashFrame

\* The answer of /api/parse reaches FileUploader.handleUpload
UploadAnswered ==
  /\ pc = "dashboard"
  /\ \E i \in 1..Len(pending), answer \in DashAnswers :
       \E req \in {pending[i]}, rest \in {Without(pending, i)} :
         /\ req.kind = "upload"
         /\ \E res \in {parseRoute(DashHeader(req.token), answer,
                                   req.fileContent, req.fileName).response} :
              IF res.success /\ res.data # <<>>
              THEN /\ fileData' = handleUploadSuccess(res.data[1].receipts,
                                                      req.fileContent,
                                                      req.fileName)
                   /\ selectedReceipt' = <<>>
                   /\ pending' = Unmounted(rest)
                   /\ form' = [isLoading |-> FALSE, isUploading |-> FALSE]
                   /\ history' =
                        [history EXCEPT
                           !.installs = @ + 1,
                           !.loaded = <<[fileName |-> req.fileName,
                                         text |-> req.fileContent]>>,
                           !.changed = {},
                           !.applied = {}]
              ELSE /\ pending' = rest
                   /\ form' = [form EXCEPT !.isUploading = FALSE]
                   /\ UNCHANGED <<fileData, selectedReceipt, history>>
  /\ DashFrame

\* ReceiptSearch.handleSearch with a unique match
Select ==
  /\ pc = "dashboard"
  /\ fileData # <<>>
  /\ \E q \in DashQueries :
       LET matches == searchByReceiptNumber(fileData[1].receipts, q)
       IN  /\ Len(matches) = 1
           /\ selectedReceipt' = <<matches[1]>>
  /\ UNCHANGED <<fileData, pending, form, history>>
  /\ DashFrame

\* ReceiptSearch.handleSearch with several matches, then handleBusinessSearch
SelectByBusiness ==
  /\ pc = "dashboard"
  /\ fileData # <<>>
  /\ \E q \in DashQueries, b \in DashBusinessNumbers :
       LET matches == searchByReceiptNumber(fileData[1].receipts, q)
           hit == searchByReceiptAndBusiness(fileData[1].receipts, q, b)
       IN  /\ Len(matches) > 1
           /\ hit # <<>>
           /\ selectedReceipt' = <<hit[1]>>
  /\ UNCHANGED <<fileData, pending, form, history>>
  /\ DashFrame

\* handleClearSelection, from the form's "Clear Selection" button
ClearSelection ==
  /\ pc = "dashboard"
  /\ fileData # <<>>
  /\ selectedReceipt # <<>>
  /\ selectedReceipt' = <<>>
  /\ pending' = Unmounted(pending)
  /\ form' = [form EXCEPT !.isLoading = FALSE]
  /\ UNCHANGED <<fileData, history>>
  /\ DashFrame

\* AllocationForm.handleSubmit, up to the request it sends
Submit ==
  /\ pc = "dashboard"
  /\ fileData # <<>>
  /\ selectedReceipt # <<>>
  /\ ~form.isLoading
  /\ history.submits < MaxSubmits
  /\ \E raw \in DashAllocations, token \in AccessTokens :
       LET validation == allocationNumberSchema(raw)
       IN  /\ history' = [history EXCEPT !.submits = @ + 1]
           /\ IF validation = <<>> \/ token = <<>>
              THEN UNCHANGED <<pending, form>>
              ELSE /\ pending' =
                        Append(pending,
                               UpdateRequestOf(fileData, selectedReceipt[1],
                                               validation[1], token))
                   /\ form' = [form EXCEPT !.isLoading = TRUE]
  /\ UNCHANGED <<fileData, selectedReceipt>>
  /\ DashFrame

\* The answer of /api/update-receipt reaches AllocationForm.handleSubmit
UpdateAnswered ==
  /\ pc = "dashboard"
  /\ \E i \in 1..Len(pending), answer \in DashAnswers :
       \E req \in {pending[i]} :
         /\ req.kind = "update"
         /\ pending' = Without(pending, i)
         /\ form' = IF req.mounted THEN [form EXCEPT !.isLoading = FALSE]
                    ELSE form
         /\ \E res \in {updateReceiptRoute(DashHeader(req.token), answer,
                                           req.fileContent, req.rowIndex,
                                           req.allocationNumber).response},
               before \in {SelectSeq(req.closure[1].receipts,
                                     LAMBDA r : r.rowIndex = req.rowIndex)} :
              IF res.success /\ res.data # <<>> /\ req.closure # <<>>
              THEN /\ fileData' =
                        handleAllocationSuccess(req.closure,
                                                res.data[1].modifiedContent,
                                                res.data[1].modifiedReceipt)
                   /\ selectedReceipt' = <<res.data[1].modifiedReceipt>>
                   /\ history' =
                        [history EXCEPT
                           !.changed =
                             IF Head(before).allocationNumber
                                  # res.data[1].modifiedReceipt.allocationNumber
                             THEN @ \cup {req.rowIndex} ELSE @,
                           !.applied =
                             @ \cup {[rowIndex |-> req.rowIndex,
                                      allocationNumber |->
                                        req.allocationNumber,
                                      fileName |-> req.fileName]}]
              ELSE UNCHANGED <<fileData, selectedReceipt, history>>
  /\ DashFrame

DashNext ==
  \/ Upload
  \/ UploadAnswered
  \/ Select
  \/ SelectByBusiness
  \/ ClearSelection
  \/ Submit
  \/ UpdateAnswered

SpecDashboard == DashInit /\ [][DashNext]_vars

\* ------------------------------------------------------------------------
\* Properties of the dashboard
\* ------------------------------------------------------------------------
\* C23: modifiedCount equals the number of distinct receipts (distinct
\* rowIndex) whose allocation an update has changed since the last upload;
\* it is 0 right after an upload.
C23_ModifiedCount ==
  (pc = "dashboard" /\ fileData # <<>>) =>
    fileData[1].modifiedCount = Cardinality(history.changed)

\* C24: whenever a file is loaded the download section is rendered, also
\* while a receipt is selected.
C24_DownloadVisible ==
  (pc = "dashboard" /\ fileData # <<>>) => "FileDownload" \in Sections

AllocationOf(receipts, rowIndex) ==
  {r.allocationNumber :
     r \in {receipts[j] : j \in {k \in 1..Len(receipts) :
                                   receipts[k].rowIndex = rowIndex}}}

\* C29: with one file loaded, once the answers of the updates have arrived,
\* every receipt that exactly one successful update was for carries that
\* update's allocation, in the receipts and in the modified content.
C29_NoLostUpdate ==
  (pc = "dashboard" /\ fileData # <<>> /\ history.installs = 1
     /\ pending = <<>>) =>
    \A u \in history.applied :
      (\A w \in history.applied : w.rowIndex = u.rowIndex => w = u) =>
        /\ AllocationOf(fileData[1].receipts, u.rowIndex)
             = {u.allocationNumber}
        /\ AllocationOf(parseFile("B", fileData[1].modifiedContent).receipts,
                        u.rowIndex)
             = {u.allocationNumber}

\* C30: the file on the dashboard is the one uploaded last: its name, its
\* original content and its receipts' number are those of the last upload
\* that was installed, whatever answers arrive afterwards.
C30_UploadNotOverwritten ==
  (pc = "dashboard" /\ fileData # <<>> /\ history.loaded # <<>>) =>
    /\ fileData[1].fileName = history.loaded[1].fileName
    /\ fileData[1].originalContent = history.loaded[1].text
    /\ fileData[1].totalReceipts
         = Len(parseFile("B", history.loaded[1].text).receipts)

====
